---- MODULE Spec2Model ----
(***************************************************************************)
(* Blokus rules engine: piece orientation, board legality, player          *)
(* inventory and the game's move/turn state machine.                       *)
(* Matrices are sequences of rows; the code's 0-based cell (r, c) of a     *)
(* matrix m is m[r + 1][c + 1].  The grid is a function on 0-based pairs.  *)
(***************************************************************************)
EXTENDS Integers, Sequences, FiniteSets, TLC

VARIABLES board, players, current_player_idx, move_history, game_over,
          turns_played, ret

vars == <<board, players, current_player_idx, move_history, game_over,
          turns_played, ret>>

(***************************************************************************)
(* Bounds of the model.                                                    *)
(***************************************************************************)
\* side length of the grid (BlokusBoard(size))
BoardSize == 3
\* number of seats (BlokusGame(num_players))
NumPlayers == 2
\* each player starts with the first NumCatalog pieces of the standard catalog
NumCatalog == 2

(***************************************************************************)
(* utils/constants.py                                                      *)
(***************************************************************************)
EMPTY == 0

get_player_colors == <<1, 2, 3, 4>>

INVALID_MOVE == "Invalid move"
PIECE_NOT_FOUND == "Piece not found"
GAME_OVER == "Game is over"
SUCCESS == "Success"

(***************************************************************************)
(* utils/piece_data.py: the standard catalog, in catalog order.            *)
(***************************************************************************)
get_standard_piece_shapes ==
  << [id |-> "1",  shape |-> << <<1>> >>],
     [id |-> "2",  shape |-> << <<1, 1>> >>],
     [id |-> "I3", shape |-> << <<1, 1, 1>> >>],
     [id |-> "V3", shape |-> << <<1, 0>>, <<1, 1>> >>],
     [id |-> "I4", shape |-> << <<1, 1, 1, 1>> >>],
     [id |-> "L4", shape |-> << <<1, 0>>, <<1, 0>>, <<1, 1>> >>],
     [id |-> "Z4", shape |-> << <<1, 1, 0>>, <<0, 1, 1>> >>],
     [id |-> "O4", shape |-> << <<1, 1>>, <<1, 1>> >>],
     [id |-> "T4", shape |-> << <<1, 1, 1>>, <<0, 1, 0>> >>],
     [id |-> "I5", shape |-> << <<1, 1, 1, 1, 1>> >>],
     [id |-> "L5", shape |-> << <<1, 0>>, <<1, 0>>, <<1, 0>>, <<1, 1>> >>],
     [id |-> "Y5", shape |-> << <<0, 1>>, <<1, 1>>, <<0, 1>>, <<0, 1>> >>],
     [id |-> "N5", shape |-> << <<0, 1>>, <<1, 1>>, <<1, 0>>, <<1, 0>> >>],
     [id |-> "P5", shape |-> << <<1, 1>>, <<1, 1>>, <<1, 0>> >>],
     [id |-> "U5", shape |-> << <<1, 0, 1>>, <<1, 1, 1>> >>],
     [id |-> "V5", shape |-> << <<1, 0, 0>>, <<1, 0, 0>>, <<1, 1, 1>> >>],
     [id |-> "Z5", shape |-> << <<1, 1, 0>>, <<0, 1, 0>>, <<0, 1, 1>> >>],
     [id |-> "T5", shape |-> << <<1, 1, 1>>, <<0, 1, 0>>, <<0, 1, 0>> >>],
     [id |-> "W5", shape |-> << <<1, 0, 0>>, <<1, 1, 0>>, <<0, 1, 1>> >>],
     [id |-> "F5", shape |-> << <<0, 1, 1>>, <<1, 1, 0>>, <<0, 1, 0>> >>],
     [id |-> "X5", shape |-> << <<0, 1, 0>>, <<1, 1, 1>>, <<0, 1, 0>> >>] >>

(***************************************************************************)
(* core/piece.py                                                           *)
(***************************************************************************)
\* numpy: shape.shape of a 2-D array
np_shape(m) == <<Len(m), Len(m[1])>>

\* numpy: np.sum of a 0/1 matrix
RECURSIVE SumSeq(_)
SumSeq(s) == IF s = <<>> THEN 0 ELSE s[1] + SumSeq(Tail(s))

np_sum(m) == SumSeq([r \in 1..Len(m) |-> SumSeq(m[r])])

\* a quarter turn in the other direction, out[i][j] = m[h - 1 - j][i]
rot90_once_clockwise(m) ==
  LET h == Len(m)
      w == Len(m[1])
  IN  [i \in 1..w |-> [j \in 1..h |-> m[h + 1 - j][i]]]

\* numpy: one counter-clockwise quarter turn, out[i][j] = m[j][w - 1 - i]
rot90_once(m) ==
  LET h == Len(m)
      w == Len(m[1])
  IN  [i \in 1..w |-> [j \in 1..h |-> m[j][w + 1 - i]]]

\* numpy: np.rot90(m, k), k counter-clockwise quarter turns (k taken mod 4)
RECURSIVE rot90(_, _)
rot90(m, k) == IF k % 4 = 0 THEN m ELSE rot90(rot90_once(m), (k % 4) - 1)

\* numpy: np.flipud(m), the mirror image top to bottom
flipud(m) == [r \in 1..Len(m) |-> m[Len(m) + 1 - r]]

\* numpy: np.fliplr(m)
fliplr(m) ==
  LET w == Len(m[1])
  IN  [r \in 1..Len(m) |-> [c \in 1..w |-> m[r][w + 1 - c]]]

\* BlokusPiece.__init__
BlokusPiece(shape, color, piece_id) ==
  [original_shape |-> shape,
   shape          |-> shape,
   color          |-> color,
   piece_id       |-> piece_id,
   size           |-> np_sum(shape),
   height         |-> np_shape(shape)[1],
   width          |-> np_shape(shape)[2]]

get_size(piece) == piece.size

get_shape(piece) == piece.shape

\* the identifier None is written "None"
get_piece_id(piece) == IF piece.piece_id = "None" THEN "Unknown" ELSE piece.piece_id

get_dimensions(piece) == <<piece.height, piece.width>>

\* row-major list of the 0-based (row, col) offsets whose entry is 1
get_filled_cells(piece) ==
  LET h == piece.height
      w == piece.width
      all == [k \in 1..(h * w) |-> <<(k - 1) \div w, (k - 1) % w>>]
      filled(rc) == piece.shape[rc[1] + 1][rc[2] + 1] = 1
  IN  SelectSeq(all, filled)

rotate(piece, rotations) ==
  LET s == rot90(piece.shape, 4 - (rotations % 4))
  IN  [piece EXCEPT !.shape = s,
                    !.height = np_shape(s)[1],
                    !.width = np_shape(s)[2]]

flip(piece) == [piece EXCEPT !.shape = fliplr(piece.shape)]

\* a reset that restores the matrix but not the dimensions
reset_orientation_keeping_dimensions(piece) ==
  [piece EXCEPT !.shape = piece.original_shape]

reset_orientation(piece) ==
  [piece EXCEPT !.shape = piece.original_shape,
                !.height = np_shape(piece.original_shape)[1],
                !.width = np_shape(piece.original_shape)[2]]

\* a bookkeeping step that appends every matrix, seen before or not
remember_always(orientations, shape) == Append(orientations, shape)

\* get_all_orientations lines 117-123: a matrix not seen before is appended
remember(orientations, shape) ==
  IF \E k \in 1..Len(orientations) : orientations[k] = shape
    THEN orientations
    ELSE Append(orientations, shape)

\* get_all_orientations lines 109-123: iteration k = 0..7 of the two nested
\* loops (flip = k >= 4, rotation = k mod 4), each acting on the piece as the
\* iteration before left it
RECURSIVE orientation_scan(_, _, _)
orientation_scan(piece, k, orientations) ==
  IF k = 8 THEN [piece |-> piece, orientations |-> orientations]
  ELSE LET flipped == IF k = 4 THEN flip(piece) ELSE piece
           turned == IF k % 4 > 0 THEN rotate(flipped, 1) ELSE flipped
       IN  orientation_scan(turned, k + 1, remember(orientations, turned.shape))

\* a get_all_orientations that leaves the piece as the loops left it
get_all_orientations_unrestored(piece) ==
  LET scan == orientation_scan(piece, 0, <<>>)
  IN  [piece |-> scan.piece, result |-> scan.orientations]

\* get_all_orientations: the piece after the call and the list returned
get_all_orientations(piece) ==
  LET original == piece.shape
      scan == orientation_scan(piece, 0, <<>>)
  IN  [piece  |-> [scan.piece EXCEPT !.shape = original,
                                     !.height = np_shape(original)[1],
                                     !.width = np_shape(original)[2]],
       result |-> scan.orientations]

(***************************************************************************)
(* core/board.py                                                           *)
(***************************************************************************)
Cells == (0..(BoardSize - 1)) \X (0..(BoardSize - 1))

\* BlokusBoard.reset: np.zeros((size, size))
reset == [rc \in Cells |-> EMPTY]

\* a range test without the lower bounds
is_on_board_upper_only(row, col) == row < BoardSize /\ col < BoardSize

is_on_board(row, col) ==
  0 <= row /\ row < BoardSize /\ 0 <= col /\ col < BoardSize

\* numpy indexing of one axis of length size: an index in [-size, size) is
\* accepted and a negative one counts from the end; any other index raises
\* IndexError
np_index_ok(i) == -BoardSize <= i /\ i < BoardSize

np_index(i) == IF i < 0 THEN i + BoardSize ELSE i

\* self.board[r, c] read (defined when both indices are accepted)
board_at(b, r, c) == b[<<np_index(r), np_index(c)>>]

get_cell(b, row, col) == IF is_on_board(row, col) THEN board_at(b, row, col) ELSE -1

set_cell(b, row, col, value) ==
  IF is_on_board(row, col)
    THEN [board |-> [b EXCEPT ![<<row, col>>] = value], ok |-> TRUE]
    ELSE [board |-> b, ok |-> FALSE]

is_empty(b, row, col) == get_cell(b, row, col) = EMPTY

get_corners ==
  { <<0, 0>>, <<0, BoardSize - 1>>, <<BoardSize - 1, 0>>,
    <<BoardSize - 1, BoardSize - 1>> }

\* a Check 2 that reads the cells but never rejects an occupied one
overlap_scan_unchecked(b, piece, position) ==
  LET cells == get_filled_cells(piece)
      raises(k) == ~(np_index_ok(position[1] + cells[k][1])
                     /\ np_index_ok(position[2] + cells[k][2]))
  IN  IF \E k \in 1..Len(cells) : raises(k) THEN "IndexError" ELSE "clear"

\* Check 2 of is_valid_placement, in the code's row-major order: the scan
\* stops at the first filled offset whose grid read raises IndexError or finds
\* a non-empty cell
overlap_scan(b, piece, position) ==
  LET cells == get_filled_cells(piece)
      r(k) == position[1] + cells[k][1]
      c(k) == position[2] + cells[k][2]
      raises(k) == ~(np_index_ok(r(k)) /\ np_index_ok(c(k)))
      stops(k) == raises(k) \/ board_at(b, r(k), c(k)) # EMPTY
      hits == {k \in 1..Len(cells) : stops(k)}
  IN  IF hits = {} THEN "clear"
      ELSE LET first == CHOOSE k \in hits : \A j \in hits : k <= j
           IN  IF raises(first) THEN "IndexError" ELSE "overlap"

\* board coordinates (p_row + r, p_col + c) of the filled offsets, as computed
abs_cells(piece, position) ==
  LET cells == get_filled_cells(piece)
  IN  { <<position[1] + cells[k][1], position[2] + cells[k][2]>> : k \in 1..Len(cells) }

\* Check 3: some filled cell's coordinates are in get_corners()
covers_corner(piece, position) == abs_cells(piece, position) \cap get_corners # {}

diagonals(r, c) == { <<r - 1, c - 1>>, <<r - 1, c + 1>>, <<r + 1, c - 1>>, <<r + 1, c + 1>> }

sides(r, c) == { <<r - 1, c>>, <<r + 1, c>>, <<r, c - 1>>, <<r, c + 1>> }

\* Check 4: some filled cell has an on-board diagonal neighbour of the colour
touches_corner(b, piece, position, player_value) ==
  \E rc \in abs_cells(piece, position) :
    \E d \in diagonals(rc[1], rc[2]) : is_on_board(d[1], d[2]) /\ b[d] = player_value

\* a side test that counts a neighbour of any colour
touches_any_side(b, piece, position, player_value) ==
  \E rc \in abs_cells(piece, position) :
    \E d \in sides(rc[1], rc[2]) : is_on_board(d[1], d[2]) /\ b[d] # EMPTY

\* Check 4: some filled cell has an on-board orthogonal neighbour of the colour
touches_own_side(b, piece, position, player_value) ==
  \E rc \in abs_cells(piece, position) :
    \E d \in sides(rc[1], rc[2]) : is_on_board(d[1], d[2]) /\ b[d] = player_value

\* how a call of is_valid_placement ends: "True" or "False" when it returns
\* that value, "IndexError" when a grid read of Check 2 raises
is_valid_placement_outcome(b, piece, position, player_color, is_first_move) ==
  IF position[1] + piece.height > BoardSize \/ position[2] + piece.width > BoardSize
    THEN "False"
  ELSE LET scan == overlap_scan(b, piece, position)
       IN  IF scan = "IndexError" THEN "IndexError"
           ELSE IF scan = "overlap" THEN "False"
           ELSE IF is_first_move
             THEN (IF covers_corner(piece, position) THEN "True" ELSE "False")
           ELSE IF touches_corner(b, piece, position, player_color)
                   /\ ~touches_own_side(b, piece, position, player_color)
             THEN "True"
           ELSE "False"

\* is_valid_placement returned true
is_valid_placement(b, piece, position, player_color, is_first_move) ==
  is_valid_placement_outcome(b, piece, position, player_color, is_first_move) = "True"

\* the grid cells place_piece assigns (self.board[p_row + r, p_col + c] = ...)
placed_cells(piece, position) ==
  { <<np_index(rc[1]), np_index(rc[2])>> : rc \in abs_cells(piece, position) }

\* a placement that writes only the first filled cell of the piece
place_piece_first_cell_only(b, piece, position, player_color) ==
  LET first == get_filled_cells(piece)[1]
      cell == <<np_index(position[1] + first[1]), np_index(position[2] + first[2])>>
  IN  [rc \in Cells |-> IF rc = cell THEN player_color ELSE b[rc]]

place_piece(b, piece, position, player_color) ==
  [rc \in Cells |-> IF rc \in placed_cells(piece, position) THEN player_color ELSE b[rc]]

\* a scan that keeps every empty cell with a diagonal neighbour of the colour
get_player_corners_ignoring_sides(b, player_color) ==
  { rc \in Cells :
      /\ b[rc] = EMPTY
      /\ \E d \in diagonals(rc[1], rc[2]) : is_on_board(d[1], d[2]) /\ b[d] = player_color }

get_player_corners(b, player_color) ==
  { rc \in Cells :
      /\ b[rc] = EMPTY
      /\ \E d \in diagonals(rc[1], rc[2]) : is_on_board(d[1], d[2]) /\ b[d] = player_color
      /\ ~\E d \in sides(rc[1], rc[2]) : is_on_board(d[1], d[2]) /\ b[d] = player_color }

Max(a, b) == IF a >= b THEN a ELSE b

Min(a, b) == IF a <= b THEN a ELSE b

\* an enumeration that tries the anchor cells themselves as top-left positions
find_valid_placements_at_anchors(b, piece, player_color, is_first_move) ==
  LET positions_to_check ==
        IF is_first_move THEN get_corners ELSE get_player_corners(b, player_color)
  IN  { position \in positions_to_check :
          is_valid_placement(b, piece, position, player_color, is_first_move) }

find_valid_placements(b, piece, player_color, is_first_move) ==
  LET positions_to_check ==
        IF is_first_move
          THEN get_corners
          ELSE UNION { ((Max(0, cc[1] - piece.height + 1))..(Min(cc[1] + 1, BoardSize - piece.height + 1) - 1))
                       \X ((Max(0, cc[2] - piece.width + 1))..(Min(cc[2] + 1, BoardSize - piece.width + 1) - 1)) :
                       cc \in get_player_corners(b, player_color) }
  IN  { position \in positions_to_check :
          is_valid_placement(b, piece, position, player_color, is_first_move) }

(***************************************************************************)
(* core/player.py                                                          *)
(***************************************************************************)
\* an absent result (None) is the empty tuple, a present one a 1-tuple
None == <<>>

Some(x) == <<x>>

initialize_pieces(color) ==
  [i \in 1..NumCatalog |->
     BlokusPiece(get_standard_piece_shapes[i].shape, color, get_standard_piece_shapes[i].id)]

\* a player constructed with the first_move flag already cleared
BlokusPlayer_without_first_move(color, player_id) ==
  [color |-> color, player_id |-> player_id, first_move |-> FALSE,
   pieces |-> initialize_pieces(color)]

BlokusPlayer(color, player_id) ==
  [color |-> color, player_id |-> player_id, first_move |-> TRUE,
   pieces |-> initialize_pieces(color)]

\* a lookup with Python's list indexing, where a negative index counts from the end
get_piece_from_end(player, index) ==
  IF -Len(player.pieces) <= index /\ index < Len(player.pieces)
    THEN Some(player.pieces[(index % Len(player.pieces)) + 1])
    ELSE None

get_piece(player, index) ==
  IF 0 <= index /\ index < Len(player.pieces)
    THEN Some(player.pieces[index + 1])
    ELSE None

\* list.pop(), which removes the last entry whatever the index
pop_last(s, index) == [k \in 1..(Len(s) - 1) |-> s[k]]

\* list.pop(index)
pop(s, index) == [k \in 1..(Len(s) - 1) |-> IF k < index + 1 THEN s[k] ELSE s[k + 1]]

\* a removal that hands out the piece and leaves it in the inventory
remove_piece_keeping(player, index) ==
  IF 0 <= index /\ index < Len(player.pieces)
    THEN [player |-> player, result |-> Some(player.pieces[index + 1])]
    ELSE [player |-> player, result |-> None]

remove_piece(player, index) ==
  IF 0 <= index /\ index < Len(player.pieces)
    THEN [player |-> [player EXCEPT !.pieces = pop(player.pieces, index)],
          result |-> Some(player.pieces[index + 1])]
    ELSE [player |-> player, result |-> None]

\* a toggle that inverts the flag
toggle_first_move_inverting(player) ==
  [player |-> [player EXCEPT !.first_move = ~player.first_move], raised |-> FALSE]

\* toggle_first_move: the player after the call and whether ValueError was raised
toggle_first_move(player) ==
  IF player.first_move = TRUE
    THEN [player |-> [player EXCEPT !.first_move = FALSE], raised |-> FALSE]
    ELSE [player |-> player, raised |-> TRUE]

has_pieces_remaining(player) == Len(player.pieces) > 0

get_remaining_piece_count(player) == Len(player.pieces)

(***************************************************************************)
(* core/game.py.  A game value g is the record of the BlokusGame fields.   *)
(***************************************************************************)
Seats == 0..(NumPlayers - 1)

\* BlokusGame.__init__
BlokusGame ==
  [board              |-> reset,
   players            |-> [i \in Seats |-> BlokusPlayer(get_player_colors[i + 1], i + 1)],
   current_player_idx |-> 0,
   move_history       |-> <<>>,
   game_over          |-> FALSE,
   turns_played       |-> 0]

get_current_player(g) == g.players[g.current_player_idx]

\* is_valid_move lines 136-142: the copy that is validated
validated_piece(piece, color, rotation, flipped) ==
  LET temp_piece == BlokusPiece(get_shape(piece), color, get_piece_id(piece))
      rotated == IF rotation > 0 THEN rotate(temp_piece, rotation) ELSE temp_piece
  IN  IF flipped THEN flip(rotated) ELSE rotated

\* a copy that is mirrored first and rotated second
temp_piece_of_flip_first(piece, color, rotation, flipped) ==
  LET temp_piece == BlokusPiece(get_shape(piece), color, get_piece_id(piece))
      mirrored == IF flipped THEN flip(temp_piece) ELSE temp_piece
  IN  IF rotation > 0 THEN rotate(mirrored, rotation) ELSE mirrored

\* make_move lines 67-73: the copy that is placed
temp_piece_of(piece, color, rotation, flipped) ==
  LET temp_piece == BlokusPiece(get_shape(piece), color, get_piece_id(piece))
      rotated == IF rotation > 0 THEN rotate(temp_piece, rotation) ELSE temp_piece
  IN  IF flipped THEN flip(rotated) ELSE rotated

\* a validation that does not test whether the index names a piece
is_valid_move_outcome_trusting_index(g, piece_idx, position, rotation, flipped) ==
  LET player == get_current_player(g)
      piece == get_piece(player, piece_idx)
  IN  IF piece = None THEN "True"
      ELSE is_valid_placement_outcome(
             g.board, validated_piece(piece[1], player.color, rotation, flipped),
             position, player.color, player.first_move)

\* how a call of is_valid_move ends ("True", "False" or "IndexError")
is_valid_move_outcome(g, piece_idx, position, rotation, flipped) ==
  LET player == get_current_player(g)
      piece == get_piece(player, piece_idx)
  IN  IF piece = None THEN "False"
      ELSE is_valid_placement_outcome(
             g.board, validated_piece(piece[1], player.color, rotation, flipped),
             position, player.color, player.first_move)

\* is_valid_move returned true
is_valid_move(g, piece_idx, position, rotation, flipped) ==
  is_valid_move_outcome(g, piece_idx, position, rotation, flipped) = "True"

RECURSIVE rotate_times(_, _)
rotate_times(piece, n) == IF n = 0 THEN piece ELSE rotate_times(rotate(piece, 1), n - 1)

\* a working copy that is turned but never flipped
can_move_piece_never_flipped(piece, color, flipped, rotation) ==
  LET temp_piece == BlokusPiece(get_shape(piece), color, "None")
  IN  rotate_times(temp_piece, rotation)

\* the working copy _can_player_move tests in iteration (flipped, rotation):
\* flipped once if asked, then one more quarter turn per rotation step
can_move_piece(piece, color, flipped, rotation) ==
  LET temp_piece == BlokusPiece(get_shape(piece), color, "None")
  IN  rotate_times(IF flipped THEN flip(temp_piece) ELSE temp_piece, rotation)

\* a search that tries every piece only as it lies in the inventory, unflipped
\* and unrotated
_can_player_move_unrotated(g, player_idx) ==
  LET player == g.players[player_idx]
  IN  IF ~has_pieces_remaining(player) THEN FALSE
      ELSE IF player.first_move
        THEN \E corner \in get_corners :
               \E i \in 1..Len(player.pieces) :
                 is_valid_placement(
                   g.board, can_move_piece(player.pieces[i], player.color, FALSE, 0),
                   corner, player.color, TRUE)
      ELSE \E corner \in get_player_corners(g.board, player.color) :
             \E i \in 1..Len(player.pieces) :
               LET temp_piece == can_move_piece(player.pieces[i], player.color, FALSE, 0)
               IN  \E r_offset \in 0..(temp_piece.height - 1) :
                     \E c_offset \in 0..(temp_piece.width - 1) :
                       /\ ~(corner[1] - r_offset < 0 \/ corner[2] - c_offset < 0)
                       /\ is_valid_placement(
                            g.board, temp_piece,
                            <<corner[1] - r_offset, corner[2] - c_offset>>,
                            player.color, FALSE)

_can_player_move(g, player_idx) ==
  LET player == g.players[player_idx]
  IN  IF ~has_pieces_remaining(player) THEN FALSE
      ELSE IF player.first_move
        THEN \E corner \in get_corners :
               \E i \in 1..Len(player.pieces) :
                 \E flipped \in BOOLEAN, rotation \in 0..3 :
                   is_valid_placement(
                     g.board,
                     can_move_piece(player.pieces[i], player.color, flipped, rotation),
                     corner, player.color, TRUE)
      ELSE \E corner \in get_player_corners(g.board, player.color) :
             \E i \in 1..Len(player.pieces) :
               \E flipped \in BOOLEAN, rotation \in 0..3 :
                 LET temp_piece ==
                       can_move_piece(player.pieces[i], player.color, flipped, rotation)
                 IN  \E r_offset \in 0..(temp_piece.height - 1) :
                       \E c_offset \in 0..(temp_piece.width - 1) :
                         /\ ~(corner[1] - r_offset < 0 \/ corner[2] - c_offset < 0)
                         /\ is_valid_placement(
                              g.board, temp_piece,
                              <<corner[1] - r_offset, corner[2] - c_offset>>,
                              player.color, FALSE)

\* the candidate examined in the k-th iteration of the loop of _next_player
candidate(g, k) == (g.current_player_idx + k) % NumPlayers

\* an advance that hands the turn to the next seat without asking whether it
\* can move
_next_player_unchecked(g) ==
  [g EXCEPT !.current_player_idx = candidate(g, 1)]

\* an advance that never declares the game over
_next_player_never_ends(g) ==
  LET found == {k \in 1..NumPlayers : _can_player_move(g, candidate(g, k))}
  IN  IF found # {}
        THEN [g EXCEPT !.current_player_idx =
                candidate(g, CHOOSE k \in found : \A j \in found : k <= j)]
        ELSE g

\* an advance that hands the turn to the first seat that still holds a piece
_next_player_first_with_pieces(g) ==
  LET found == {k \in 1..NumPlayers : has_pieces_remaining(g.players[candidate(g, k)])}
  IN  IF found # {}
        THEN [g EXCEPT !.current_player_idx =
                candidate(g, CHOOSE k \in found : \A j \in found : k <= j)]
        ELSE [g EXCEPT !.game_over = TRUE]

\* an advance whose scan stops before the seat that has just moved
_next_player_excluding_mover(g) ==
  LET found == {k \in 1..(NumPlayers - 1) : _can_player_move(g, candidate(g, k))}
  IN  IF found # {}
        THEN [g EXCEPT !.current_player_idx =
                candidate(g, CHOOSE k \in found : \A j \in found : k <= j)]
        ELSE [g EXCEPT !.game_over = TRUE]

_next_player(g) ==
  LET found == {k \in 1..NumPlayers : _can_player_move(g, candidate(g, k))}
  IN  IF found # {}
        THEN [g EXCEPT !.current_player_idx =
                candidate(g, CHOOSE k \in found : \A j \in found : k <= j)]
        ELSE [g EXCEPT !.game_over = TRUE]

\* the result of a make_move call that returns
Returned(success, message) == [kind |-> "return", success |-> success, message |-> message]

\* the result of a make_move call that ends in an exception
Raised(exception) == [kind |-> "raise", success |-> FALSE, message |-> exception]

\* an execution that paints the cells with the colour of the seat after the mover
execute_move_other_colour(g, piece_idx, position, rotation, flipped) ==
  LET idx == g.current_player_idx
      player == g.players[idx]
      piece == get_piece(player, piece_idx)[1]
      temp_piece == temp_piece_of(piece, player.color, rotation, flipped)
      removed == remove_piece(player, piece_idx).player
  IN  [g EXCEPT
         !.board = place_piece(g.board, temp_piece, position,
                               g.players[candidate(g, 1)].color),
         !.players = [g.players EXCEPT ![idx] = [removed EXCEPT !.first_move = FALSE]],
         !.move_history = Append(g.move_history,
                                 [player   |-> player.player_id,
                                  piece_id |-> get_piece_id(piece),
                                  position |-> position,
                                  rotation |-> rotation,
                                  flip     |-> flipped]),
         !.turns_played = g.turns_played + 1]

\* an execution that leaves the mover's first_move flag as it was
execute_move_keeping_first_move(g, piece_idx, position, rotation, flipped) ==
  LET idx == g.current_player_idx
      player == g.players[idx]
      piece == get_piece(player, piece_idx)[1]
      temp_piece == temp_piece_of(piece, player.color, rotation, flipped)
      removed == remove_piece(player, piece_idx).player
  IN  [g EXCEPT
         !.board = place_piece(g.board, temp_piece, position, player.color),
         !.players = [g.players EXCEPT ![idx] = removed],
         !.move_history = Append(g.move_history,
                                 [player   |-> player.player_id,
                                  piece_id |-> get_piece_id(piece),
                                  position |-> position,
                                  rotation |-> rotation,
                                  flip     |-> flipped]),
         !.turns_played = g.turns_played + 1]

\* an execution that keeps only the latest entry of the history
execute_move_overwriting_history(g, piece_idx, position, rotation, flipped) ==
  LET idx == g.current_player_idx
      player == g.players[idx]
      piece == get_piece(player, piece_idx)[1]
      temp_piece == temp_piece_of(piece, player.color, rotation, flipped)
      removed == remove_piece(player, piece_idx).player
  IN  [g EXCEPT
         !.board = place_piece(g.board, temp_piece, position, player.color),
         !.players = [g.players EXCEPT ![idx] = [removed EXCEPT !.first_move = FALSE]],
         !.move_history = << [player   |-> player.player_id,
                              piece_id |-> get_piece_id(piece),
                              position |-> position,
                              rotation |-> rotation,
                              flip     |-> flipped] >>,
         !.turns_played = g.turns_played + 1]

\* an execution that applies the rotation to the pieces left in the inventory
execute_move_rotating_inventory(g, piece_idx, position, rotation, flipped) ==
  LET idx == g.current_player_idx
      player == g.players[idx]
      piece == get_piece(player, piece_idx)[1]
      temp_piece == temp_piece_of(piece, player.color, rotation, flipped)
      removed == remove_piece(player, piece_idx).player
      turned == [removed EXCEPT
                   !.pieces = [k \in 1..Len(removed.pieces) |->
                                 rotate(removed.pieces[k], rotation)]]
  IN  [g EXCEPT
         !.board = place_piece(g.board, temp_piece, position, player.color),
         !.players = [g.players EXCEPT ![idx] = [turned EXCEPT !.first_move = FALSE]],
         !.move_history = Append(g.move_history,
                                 [player   |-> player.player_id,
                                  piece_id |-> get_piece_id(piece),
                                  position |-> position,
                                  rotation |-> rotation,
                                  flip     |-> flipped]),
         !.turns_played = g.turns_played + 1]

\* make_move lines 75-96: the effects of an accepted move, before the turn advances
\* an execution that counts the move as two turns
execute_move_counting_twice(g, piece_idx, position, rotation, flipped) ==
  LET idx == g.current_player_idx
      player == g.players[idx]
      piece == get_piece(player, piece_idx)[1]
      temp_piece == temp_piece_of(piece, player.color, rotation, flipped)
      removed == remove_piece(player, piece_idx).player
  IN  [g EXCEPT
         !.board = place_piece(g.board, temp_piece, position, player.color),
         !.players = [g.players EXCEPT ![idx] = [removed EXCEPT !.first_move = FALSE]],
         !.move_history = Append(g.move_history,
                                 [player   |-> player.player_id,
                                  piece_id |-> get_piece_id(piece),
                                  position |-> position,
                                  rotation |-> rotation,
                                  flip     |-> flipped]),
         !.turns_played = g.turns_played + 2]

execute_move(g, piece_idx, position, rotation, flipped) ==
  LET idx == g.current_player_idx
      player == g.players[idx]
      piece == get_piece(player, piece_idx)[1]
      temp_piece == temp_piece_of(piece, player.color, rotation, flipped)
      removed == remove_piece(player, piece_idx).player
  IN  [g EXCEPT
         !.board = place_piece(g.board, temp_piece, position, player.color),
         !.players = [g.players EXCEPT ![idx] = [removed EXCEPT !.first_move = FALSE]],
         !.move_history = Append(g.move_history,
                                 [player   |-> player.player_id,
                                  piece_id |-> get_piece_id(piece),
                                  position |-> position,
                                  rotation |-> rotation,
                                  flip     |-> flipped]),
         !.turns_played = g.turns_played + 1]

\* a rejection that has already counted the turn
reject_counting_turn(g, message) ==
  [game |-> [g EXCEPT !.turns_played = g.turns_played + 1],
   ret  |-> Returned(FALSE, message)]

\* make_move lines 52, 55, 64: a rejected call returns (False, message)
reject(g, message) == [game |-> g, ret |-> Returned(FALSE, message)]

\* a make_move without the game_over test of lines 51-52
make_move_unguarded(g, piece_idx, position, rotation, flipped) ==
  LET valid == is_valid_move_outcome(g, piece_idx, position, rotation, flipped)
  IN  IF valid = "IndexError"
        THEN [game |-> g, ret |-> Raised("IndexError")]
      ELSE IF valid # "True"
        THEN reject(g, INVALID_MOVE)
      ELSE IF get_piece(get_current_player(g), piece_idx) = None
        THEN reject(g, PIECE_NOT_FOUND)
      ELSE [game |-> _next_player(
                       execute_move(g, piece_idx, position, rotation, flipped)),
            ret  |-> Returned(TRUE, SUCCESS)]

\* make_move: the game after the call and how the call ended
make_move(g, piece_idx, position, rotation, flipped) ==
  IF g.game_over
    THEN reject(g, GAME_OVER)
  ELSE LET valid == is_valid_move_outcome(g, piece_idx, position, rotation, flipped)
       IN  IF valid = "IndexError"
             THEN [game |-> g, ret |-> Raised("IndexError")]
           ELSE IF valid # "True"
             THEN reject(g, INVALID_MOVE)
           ELSE IF get_piece(get_current_player(g), piece_idx) = None
             THEN reject(g, PIECE_NOT_FOUND)
           ELSE [game |-> _next_player(
                            execute_move(g, piece_idx, position, rotation, flipped)),
                 ret  |-> Returned(TRUE, SUCCESS)]

(***************************************************************************)
(* The game as a state machine: one make_move call per step.               *)
(***************************************************************************)
Game ==
  [board              |-> board,
   players            |-> players,
   current_player_idx |-> current_player_idx,
   move_history       |-> move_history,
   game_over          |-> game_over,
   turns_played       |-> turns_played]

\* argument sets of the calls: every index from one below to one past the full
\* inventory; every top-left position from one row/column before the grid to
\* its last row/column, and one position far outside numpy's index range;
\* the identity orientation and a quarter turn combined with a flip
PieceIndexes == -1..NumCatalog

Coords == -1..(BoardSize - 1)

FarPosition == <<-(BoardSize + 1), 0>>

Positions == (Coords \X Coords) \cup {FarPosition}

OrientationArgs == { <<0, FALSE>>, <<1, TRUE>> }

NoCall == [kind |-> "none", success |-> FALSE, message |-> ""]

Init ==
  /\ board = BlokusGame.board
  /\ players = BlokusGame.players
  /\ current_player_idx = BlokusGame.current_player_idx
  /\ move_history = BlokusGame.move_history
  /\ game_over = BlokusGame.game_over
  /\ turns_played = BlokusGame.turns_played
  /\ ret = NoCall

MakeMove ==
  \E piece_idx \in PieceIndexes, position \in Positions, o \in OrientationArgs :
    LET r == make_move(Game, piece_idx, position, o[1], o[2])
    IN  /\ board' = r.game.board
        /\ players' = r.game.players
        /\ current_player_idx' = r.game.current_player_idx
        /\ move_history' = r.game.move_history
        /\ game_over' = r.game.game_over
        /\ turns_played' = r.game.turns_played
        /\ ret' = r.ret

Next == MakeMove

Spec == Init /\ [][Next]_vars

(***************************************************************************)
(* Properties.  A call is a tuple of make_move arguments; Result(c) is the *)
(* outcome of making that call in the current state.                       *)
(***************************************************************************)
Calls == PieceIndexes \X Positions \X OrientationArgs

Result(c) == make_move(Game, c[1], c[2], c[3][1], c[3][2])

\* C1: a make_move call that returns success = false leaves the grid, every
\* player's inventory and first_move flag, move_history, current_player_idx,
\* turns_played and game_over exactly as they were before the call.
C1_RejectedMoveChangesNothing ==
  \A c \in Calls :
    LET r == Result(c)
    IN  (r.ret.kind = "return" /\ ~r.ret.success) => r.game = Game

\* a rejected call was made in the middle of a game
C1_Witness ==
  /\ ret = Returned(FALSE, INVALID_MOVE)
  /\ turns_played > 0
  /\ ~game_over

\* C2: a move writes only grid cells that were empty immediately before it, so
\* a non-empty cell keeps its tag across every call (it is never emptied or
\* recoloured, and no two placements occupy the same cell).
C2_NonEmptyCellsKeepTheirTag ==
  \A c \in Calls :
    \A rc \in Cells : board[rc] # EMPTY => Result(c).game.board[rc] = board[rc]

\* a placement was accepted on a grid that already held two placements
C2_Witness ==
  /\ ret = Returned(TRUE, SUCCESS)
  /\ turns_played >= 3
  /\ \E rc \in Cells : board[rc] = EMPTY

(***************************************************************************)
(* Vocabulary of the legality claims, stated on true grid coordinates.     *)
(***************************************************************************)
PlayerColors == { players[i].color : i \in Seats }

\* every catalog piece of the model in each of the 8 (rotation, flip) settings
ProbePieces(color) ==
  { validated_piece(BlokusPiece(get_standard_piece_shapes[i].shape, color,
                                 get_standard_piece_shapes[i].id),
                    color, rotation, flipped) :
      i \in 1..NumCatalog, rotation \in 0..3, flipped \in BOOLEAN }

\* the bounding box with its top-left at position lies in [0,N) x [0,N)
InGrid(piece, position) ==
  /\ 0 <= position[1]
  /\ 0 <= position[2]
  /\ position[1] + Len(piece.shape) <= BoardSize
  /\ position[2] + Len(piece.shape[1]) <= BoardSize

\* position + (the offsets of the 1-entries of the matrix)
Footprint(shape, position) ==
  { <<position[1] + r - 1, position[2] + c - 1>> :
      <<r, c>> \in { rc \in (1..Len(shape)) \X (1..Len(shape[1])) : shape[rc[1]][rc[2]] = 1 } }

HasNeighbour(b, cells, offsets, color) ==
  \E rc \in cells : \E d \in offsets :
    /\ <<rc[1] + d[1], rc[2] + d[2]>> \in Cells
    /\ b[<<rc[1] + d[1], rc[2] + d[2]>>] = color

Diagonal == { <<-1, -1>>, <<-1, 1>>, <<1, -1>>, <<1, 1>> }

Orthogonal == { <<-1, 0>>, <<1, 0>>, <<0, -1>>, <<0, 1>> }

\* C3: for a non-first move, is_valid_placement returns true exactly when the
\* bounding box lies in the grid, every filled cell is on an empty grid cell,
\* some filled cell has a diagonal neighbour of the colour and no filled cell
\* has an orthogonal neighbour of the colour.
C3_NonFirstMoveLegality ==
  \A color \in PlayerColors :
    \A piece \in ProbePieces(color), position \in Positions :
      is_valid_placement(board, piece, position, color, FALSE)
        <=> /\ InGrid(piece, position)
            /\ \A rc \in Footprint(piece.shape, position) : board[rc] = EMPTY
            /\ HasNeighbour(board, Footprint(piece.shape, position), Diagonal, color)
            /\ ~HasNeighbour(board, Footprint(piece.shape, position), Orthogonal, color)

\* C4: for a first move, is_valid_placement returns true exactly when the
\* bounding box lies in the grid, every filled cell is on an empty grid cell
\* and some filled cell lies on one of the four corner cells of the grid.
C4_FirstMoveLegality ==
  \A color \in PlayerColors :
    \A piece \in ProbePieces(color), position \in Positions :
      is_valid_placement(board, piece, position, color, TRUE)
        <=> /\ InGrid(piece, position)
            /\ \A rc \in Footprint(piece.shape, position) : board[rc] = EMPTY
            /\ \E rc \in Footprint(piece.shape, position) :
                 /\ rc[1] \in {0, BoardSize - 1}
                 /\ rc[2] \in {0, BoardSize - 1}

\* C5: is_valid_placement is false at every position, negative ones included,
\* whose bounding box does not lie entirely inside the grid, so no make_move
\* succeeds at such a position and no cell outside position + (filled offsets)
\* is written.
C5_OutOfGridRejected ==
  /\ \A color \in PlayerColors, is_first_move \in BOOLEAN :
       \A piece \in ProbePieces(color), position \in Positions :
         ~InGrid(piece, position)
           => ~is_valid_placement(board, piece, position, color, is_first_move)
  /\ \A c \in Calls :
       LET r == Result(c)
           player == get_current_player(Game)
           shape == validated_piece(player.pieces[c[1] + 1], player.color,
                                    c[3][1], c[3][2]).shape
       IN  r.ret.success =>
             /\ InGrid([shape |-> shape], c[2])
             /\ \A rc \in Cells \ Footprint(shape, c[2]) : r.game.board[rc] = board[rc]

(***************************************************************************)
(* Turn advancement and termination.                                       *)
(***************************************************************************)
\* the seats in the order the scan after a move by seat m visits them
ScanOrder(m) == [k \in 1..NumPlayers |-> (m + k) % NumPlayers]

\* C6: after a successful move by seat m with some seat still able to move,
\* the current seat is the first seat of m+1, m+2, ..., m (cyclically) for
\* which can_player_move holds in the post-move state; every seat before it
\* in that order cannot move.
C6_TurnPassesToFirstSeatThatCanMove ==
  \A c \in Calls :
    LET r == Result(c)
        order == ScanOrder(current_player_idx)
        can(seat) == _can_player_move(r.game, seat)
    IN  (r.ret.success /\ \E seat \in Seats : can(seat))
          => \E k \in 1..NumPlayers :
               /\ r.game.current_player_idx = order[k]
               /\ can(order[k])
               /\ \A j \in 1..(k - 1) : ~can(order[j])

\* a move was accepted and the seat after the mover was passed over
C6_Witness ==
  /\ ret = Returned(TRUE, SUCCESS)
  /\ ~game_over
  /\ LET m == move_history[Len(move_history)].player - 1
     IN  /\ ~_can_player_move(Game, (m + 1) % NumPlayers)
         /\ current_player_idx # (m + 1) % NumPlayers

\* C7: when no seat can move after a successful move by seat m, game_over is
\* set and the current seat is m; game_over is set in no other case, and not
\* by the execution steps of make_move.
C7_GameOverWhenNoSeatCanMove ==
  \A c \in Calls :
    LET r == Result(c)
        none_can == \A seat \in Seats : ~_can_player_move(r.game, seat)
    IN  r.ret.success =>
          /\ none_can => (r.game.game_over /\ r.game.current_player_idx = current_player_idx)
          /\ r.game.game_over => none_can
          /\ ~execute_move(Game, c[1], c[2], c[3][1], c[3][2]).game_over

\* the move just accepted ended the game
C7_Witness ==
  /\ ret = Returned(TRUE, SUCCESS)
  /\ game_over
  /\ current_player_idx = move_history[Len(move_history)].player - 1

\* C8: when game_over is true no seat has a legal placement: for every seat,
\* every piece of its inventory, each of the 8 orientations and every grid
\* position, is_valid_placement with the seat's colour and first_move flag is
\* false.
C8_GameOverMeansNoLegalPlacement ==
  game_over =>
    \A seat \in Seats :
      \A i \in 1..Len(players[seat].pieces) :
        \A rotation \in 0..3, flipped \in BOOLEAN, position \in Cells :
          ~is_valid_placement(
             board,
             validated_piece(players[seat].pieces[i], players[seat].color,
                             rotation, flipped),
             position, players[seat].color, players[seat].first_move)

\* the game is over while some seat still holds pieces
C8_Witness ==
  /\ game_over
  /\ \E seat \in Seats : has_pieces_remaining(players[seat])

\* C9: once game_over is true every make_move call returns (false, GameOver)
\* and changes nothing, so game_over stays true.
C9_GameOverIsAbsorbing ==
  game_over =>
    \A c \in Calls : Result(c) = [game |-> Game, ret |-> Returned(FALSE, GAME_OVER)]

\* a call was made after the game had ended
C9_Witness ==
  /\ game_over
  /\ ret = Returned(FALSE, GAME_OVER)

(***************************************************************************)
(* Effects of an accepted move.                                            *)
(***************************************************************************)
\* one quarter turn clockwise: cell (r, c) of an h-by-w matrix moves to
\* (c, h - 1 - r)
ClockwiseTurn(m) ==
  [i \in 1..Len(m[1]) |-> [j \in 1..Len(m) |-> m[Len(m) + 1 - j][i]]]

\* left-to-right mirror image: cell (r, c) moves to (r, w - 1 - c)
Mirror(m) ==
  [r \in 1..Len(m) |-> [c \in 1..Len(m[1]) |-> m[r][Len(m[1]) + 1 - c]]]

RECURSIVE Turned(_, _)
Turned(m, n) == IF n = 0 THEN m ELSE Turned(ClockwiseTurn(m), n - 1)

\* the shape rotated clockwise by rotation quarter turns, then mirrored if asked
Oriented(shape, rotation, flipped) ==
  IF flipped THEN Mirror(Turned(shape, rotation % 4)) ELSE Turned(shape, rotation % 4)

\* C10: an accepted make_move(piece_index, position, rotation, flip) of seat m
\* changes exactly the grid cells position + (filled offsets of the transformed
\* piece) from empty to m's colour and no other cell, removes exactly the piece
\* at piece_index from m's inventory keeping the order of the others, clears
\* m's first_move flag, appends exactly one history entry and adds 1 to
\* turns_played.
C10_AcceptedMoveEffects ==
  \A c \in Calls :
    LET r == Result(c)
        m == current_player_idx
        shape == Oriented(players[m].pieces[c[1] + 1].shape, c[3][1], c[3][2])
        cells == Footprint(shape, c[2])
        kept == [k \in 1..(Len(players[m].pieces) - 1) |->
                   players[m].pieces[IF k <= c[1] THEN k ELSE k + 1]]
    IN  r.ret.success =>
          /\ cells \subseteq Cells
          /\ \A rc \in cells : board[rc] = EMPTY
          /\ \A rc \in Cells :
               r.game.board[rc] = IF rc \in cells THEN players[m].color ELSE board[rc]
          /\ r.game.players[m].pieces = kept
          /\ ~r.game.players[m].first_move
          /\ \A seat \in Seats \ {m} : r.game.players[seat] = players[seat]
          /\ Len(r.game.move_history) = Len(move_history) + 1
          /\ SubSeq(r.game.move_history, 1, Len(move_history)) = move_history
          /\ r.game.turns_played = turns_played + 1

(***************************************************************************)
(* Turn order, outcomes, first_move flags, history and index handling.     *)
(***************************************************************************)
\* the number of cells the pieces of an inventory cover together
InventorySize(pieces) == SumSeq([k \in 1..Len(pieces) |-> pieces[k].size])

\* C11: every successful make_move acts for the seat that was current when it
\* was called: it writes only that seat's colour, removes a piece only from
\* that seat's inventory and leaves every other player's inventory and
\* first_move flag unchanged; so in every state the cells of a seat's colour
\* are exactly as many as the cells of the pieces gone from its inventory.
C11_MovesActForTheCurrentSeat ==
  /\ \A c \in Calls :
       LET r == Result(c)
           m == current_player_idx
       IN  r.ret.success =>
             /\ \E rc \in Cells : r.game.board[rc] # board[rc]
             /\ \A rc \in Cells :
                  r.game.board[rc] # board[rc] => r.game.board[rc] = players[m].color
             /\ Len(r.game.players[m].pieces) = Len(players[m].pieces) - 1
             /\ \A seat \in Seats \ {m} :
                  /\ r.game.players[seat].pieces = players[seat].pieces
                  /\ r.game.players[seat].first_move = players[seat].first_move
             /\ r.game.move_history[Len(r.game.move_history)].player = players[m].player_id
  /\ \A seat \in Seats :
       Cardinality({rc \in Cells : board[rc] = players[seat].color})
         = InventorySize(initialize_pieces(players[seat].color))
             - InventorySize(players[seat].pieces)

\* two different seats have moved, the second of them just now
C11_Witness ==
  /\ ret = Returned(TRUE, SUCCESS)
  /\ Len(move_history) >= 2
  /\ move_history[Len(move_history)].player # move_history[Len(move_history) - 1].player

\* C16: for every piece index, position (on or off the grid), rotation and
\* flip, make_move returns a (success, message) pair whose message is one of
\* Success, InvalidMove, PieceNotFound, GameOver; no call ends in an exception.
C16_MakeMoveAlwaysReturns ==
  \A c \in Calls :
    LET r == Result(c)
    IN  /\ r.ret.kind = "return"
        /\ r.ret.message \in {SUCCESS, INVALID_MOVE, PIECE_NOT_FOUND, GAME_OVER}

\* the seats that have an entry in the history
Movers == { move_history[k].player - 1 : k \in 1..Len(move_history) }

\* C17: a player's first_move flag is true in a new game and exactly until that
\* player's first successful move; a call changes only the flag of the seat
\* that moved successfully, and only to false, so a failed call, another
\* player's move and the turn advance leave it alone and false never becomes
\* true.
C17_FirstMoveFlag ==
  /\ \A seat \in Seats : players[seat].first_move <=> seat \notin Movers
  /\ \A c \in Calls :
       LET r == Result(c)
       IN  \A seat \in Seats :
             r.game.players[seat].first_move
               = IF r.ret.success /\ seat = current_player_idx
                   THEN FALSE
                   ELSE players[seat].first_move

\* a call was rejected while one seat had moved and another had not
C17_Witness ==
  /\ ret = Returned(FALSE, INVALID_MOVE)
  /\ \E seat \in Seats : ~players[seat].first_move
  /\ \E seat \in Seats : players[seat].first_move

\* C18: move_history is append-only: a rejected call leaves it as it was and a
\* successful call appends one entry with the mover's seat id, the identifier
\* of the piece taken from the inventory and the position, rotation and flip
\* as passed; earlier entries keep their place and content.
C18_HistoryAppendOnly ==
  \A c \in Calls :
    LET r == Result(c)
        m == current_player_idx
    IN  IF r.ret.success
          THEN /\ r.game.move_history
                    = Append(move_history,
                             [player   |-> m + 1,
                              piece_id |-> players[m].pieces[c[1] + 1].piece_id,
                              position |-> c[2],
                              rotation |-> c[3][1],
                              flip     |-> c[3][2]])
               /\ \A k \in 1..Len(r.game.players[m].pieces) :
                    r.game.players[m].pieces[k].piece_id
                      # players[m].pieces[c[1] + 1].piece_id
          ELSE r.game.move_history = move_history

\* the history holds an earlier entry and one just appended for a move made
\* with a rotation and a flip
C18_Witness ==
  /\ ret = Returned(TRUE, SUCCESS)
  /\ Len(move_history) >= 2
  /\ move_history[Len(move_history)].rotation = 1
  /\ move_history[Len(move_history)].flip

\* C19: while the game is not over, make_move with a piece index that is
\* negative or not below the current player's inventory length returns
\* (false, InvalidMove) for every position, rotation and flip and changes
\* nothing; a negative index selects no piece.
C19_IndexOutOfRangeRejected ==
  ~game_over =>
    \A c \in Calls :
      (c[1] < 0 \/ c[1] >= Len(players[current_player_idx].pieces))
        => Result(c) = [game |-> Game, ret |-> Returned(FALSE, INVALID_MOVE)]

\* a call was rejected when the current player's inventory had shrunk, so that
\* an index of the full inventory had fallen out of range
C19_Witness ==
  /\ ret = Returned(FALSE, INVALID_MOVE)
  /\ ~game_over
  /\ Len(players[current_player_idx].pieces) \in 1..(NumCatalog - 1)

\* C20: make_move never returns PieceNotFound: whenever is_valid_move accepts
\* a call, the lookup of the piece yields a piece.
C20_PieceNotFoundUnreachable ==
  /\ ret.message # PIECE_NOT_FOUND
  /\ \A c \in Calls :
       /\ Result(c).ret.message # PIECE_NOT_FOUND
       /\ is_valid_move(Game, c[1], c[2], c[3][1], c[3][2])
            => get_piece(get_current_player(Game), c[1]) # None

\* a move was accepted that took the last piece of an inventory
C20_Witness ==
  /\ ret = Returned(TRUE, SUCCESS)
  /\ \E seat \in Seats : ~has_pieces_remaining(players[seat])

(***************************************************************************)
(* The board on its own: BlokusBoard's writing operations, called directly *)
(* with any colour.  set_cell and place_piece do not validate, so every    *)
(* colouring of the grid can be built.                                     *)
(***************************************************************************)
\* the board-level calls use the first NumColors player colours
NumColors == 3
\* the board-level calls keep at most MaxFilled cells non-empty
MaxFilled == 3
\* the board-level calls and queries use the first NumProbe catalog pieces
NumProbe == 4

BoardColors == { get_player_colors[i] : i \in 1..NumColors }

\* the first NumProbe catalog pieces in each of the 8 (rotation, flip) settings
BoardPieces(color) ==
  { IF flipped THEN flip(rotate(piece, rotation)) ELSE rotate(piece, rotation) :
      piece \in { BlokusPiece(get_standard_piece_shapes[i].shape, color,
                              get_standard_piece_shapes[i].id) : i \in 1..NumProbe },
      rotation \in 0..3, flipped \in BOOLEAN }

Filled(b) == Cardinality({ rc \in Cells : b[rc] # EMPTY })

\* the pieces place_piece is called with: the first NumCatalog catalog pieces
\* as they lie and turned a quarter
PlacedPieces(color) ==
  { rotate(BlokusPiece(get_standard_piece_shapes[i].shape, color,
                       get_standard_piece_shapes[i].id), rotation) :
      i \in 1..NumCatalog, rotation \in 0..1 }

\* board.set_cell(row, col, value), rows and columns from the first of the grid
\* to one past its last
SetCell ==
  \E row \in 0..BoardSize, col \in 0..BoardSize, value \in {EMPTY} \cup BoardColors :
    /\ board' = set_cell(board, row, col, value).board
    /\ Filled(board') <= MaxFilled
    /\ UNCHANGED <<players, current_player_idx, move_history, game_over,
                   turns_played, ret>>

\* board.place_piece(piece, position, color), at the positions where every
\* grid index of the piece is accepted (the call completes)
PlacePiece ==
  \E color \in BoardColors :
    \E piece \in PlacedPieces(color), position \in Coords \X Coords :
      /\ \A rc \in abs_cells(piece, position) : np_index_ok(rc[1]) /\ np_index_ok(rc[2])
      /\ board' = place_piece(board, piece, position, color)
      /\ Filled(board') <= MaxFilled
      /\ UNCHANGED <<players, current_player_idx, move_history, game_over,
                     turns_played, ret>>

BoardNext == SetCell \/ PlacePiece

BoardSpec == Init /\ [][BoardNext]_vars

\* C12: for a non-first move, find_valid_placements returns exactly the grid
\* positions at which is_valid_placement is true: nothing invalid is returned
\* and nothing valid is missed, because every valid non-first placement has a
\* filled cell on an anchor of get_player_corners.
C12_FindValidPlacementsExact ==
  \A color \in BoardColors :
    \A piece \in BoardPieces(color) :
      /\ find_valid_placements(board, piece, color, FALSE)
           = { position \in Cells :
                 is_valid_placement(board, piece, position, color, FALSE) }
      /\ \A position \in Cells :
           is_valid_placement(board, piece, position, color, FALSE)
             => Footprint(piece.shape, position) \cap get_player_corners(board, color) # {}

\* a piece of three cells has a valid non-first placement whose top-left cell
\* is not an anchor
C12_Witness ==
  \E color \in BoardColors :
    \E piece \in BoardPieces(color) :
      /\ piece.size >= 3
      /\ \E position \in find_valid_placements(board, piece, color, FALSE) :
           position \notin get_player_corners(board, color)

\* C13: for a first move, find_valid_placements returns exactly the grid
\* positions at which is_valid_placement is true for the piece as oriented:
\* every returned position is valid and every valid position is returned.
C13_FirstMoveEnumeration ==
  \A color \in BoardColors :
    \A piece \in BoardPieces(color) :
      find_valid_placements(board, piece, color, TRUE)
        = { position \in Cells :
              is_valid_placement(board, piece, position, color, TRUE) }

\* C14: get_player_corners returns exactly the empty grid cells with at least
\* one diagonal grid neighbour of the colour and no orthogonal one; an occupied
\* cell is never returned, and a returned cell is no longer returned once it is
\* filled or an orthogonal neighbour of it takes the colour.
C14_PlayerCornersExact ==
  \A color \in BoardColors :
    LET anchors == get_player_corners(board, color)
    IN  /\ anchors = { rc \in Cells :
                         /\ board[rc] = EMPTY
                         /\ HasNeighbour(board, {rc}, Diagonal, color)
                         /\ ~HasNeighbour(board, {rc}, Orthogonal, color) }
        /\ \A rc \in anchors :
             /\ \A value \in BoardColors :
                  rc \notin get_player_corners([board EXCEPT ![rc] = value], color)
             /\ \A d \in Orthogonal :
                  <<rc[1] + d[1], rc[2] + d[2]>> \in Cells
                    => rc \notin get_player_corners(
                                   [board EXCEPT ![<<rc[1] + d[1], rc[2] + d[2]>>] = color],
                                   color)

\* for one colour the grid holds an anchor and also an empty cell that has a
\* diagonal neighbour of the colour but is ruled out by an orthogonal one
C14_Witness ==
  \E color \in BoardColors :
    /\ get_player_corners(board, color) # {}
    /\ \E rc \in Cells :
         /\ board[rc] = EMPTY
         /\ HasNeighbour(board, {rc}, Diagonal, color)
         /\ HasNeighbour(board, {rc}, Orthogonal, color)

\* the grid with every cell of a colour other than color given one and the
\* same other colour
Uniform(b, color) ==
  LET other == CHOOSE o \in BoardColors : o # color
  IN  [rc \in Cells |-> IF b[rc] \in {EMPTY, color} THEN b[rc] ELSE other]

\* the grid with the cells of other colours than color outside a set of cells
\* emptied
WithoutOthers(b, color, cells) ==
  [rc \in Cells |-> IF b[rc] # color /\ rc \notin cells THEN EMPTY ELSE b[rc]]

\* C15: the colours of other players matter only as occupancy: the outcome of
\* is_valid_placement for colour c is the same on every two grids that differ
\* only in which other colours their non-empty cells not of colour c carry
\* (each grid gives the outcome of the grid with those cells in one colour), at
\* every position and for both values of the first-move flag; and a placement
\* inside the grid is valid exactly when it is valid with every other-coloured
\* cell outside its filled cells removed, so adjacency to another colour never
\* rejects it.
C15_OtherColoursOnlyOccupy ==
  \A color \in BoardColors :
    LET uniform == Uniform(board, color)
    IN  \A is_first_move \in BOOLEAN :
          \A piece \in BoardPieces(color) :
            /\ uniform # board =>
                 \A position \in Positions :
                   is_valid_placement_outcome(uniform, piece, position, color,
                                              is_first_move)
                     = is_valid_placement_outcome(board, piece, position, color,
                                                  is_first_move)
            /\ \A position \in Cells :
                 InGrid(piece, position) =>
                   (is_valid_placement(board, piece, position, color, is_first_move)
                      <=> is_valid_placement(
                            WithoutOthers(board, color, Footprint(piece.shape, position)),
                            piece, position, color, is_first_move))

\* a valid non-first placement lies side by side with a cell of another colour
C15_Witness ==
  \E color \in BoardColors :
    \E piece \in BoardPieces(color), position \in Cells :
      /\ is_valid_placement(board, piece, position, color, FALSE)
      /\ \E other \in BoardColors \ {color} :
           HasNeighbour(board, Footprint(piece.shape, position), Orthogonal, other)

(***************************************************************************)
(* Working copies of the pieces.                                           *)
(***************************************************************************)
\* a catalog piece as a player of the colour holds it
CatalogPiece(i, color) ==
  BlokusPiece(get_standard_piece_shapes[i].shape, color, get_standard_piece_shapes[i].id)

\* C21: for rotation in 0..3 the shape make_move hands to the board is the
\* inventory piece's shape turned clockwise rotation times and then mirrored
\* if flip is set, and it is the shape is_valid_move validated; a successful
\* move at a position inside the grid fills exactly position + the filled
\* offsets of that shape.
C21_PlacedShapeIsValidatedShape ==
  /\ \A i \in 1..Len(get_standard_piece_shapes), rotation \in 0..3, flipped \in BOOLEAN :
       LET color == players[current_player_idx].color
           piece == CatalogPiece(i, color)
           placed == temp_piece_of(piece, color, rotation, flipped)
       IN  /\ placed.shape = Oriented(piece.shape, rotation, flipped)
           /\ placed = validated_piece(piece, color, rotation, flipped)
  /\ \A c \in Calls :
       LET r == Result(c)
       IN  (r.ret.success /\ c[2] \in Cells) =>
             LET shape == Oriented(players[current_player_idx].pieces[c[1] + 1].shape,
                                   c[3][1], c[3][2])
             IN  /\ InGrid([shape |-> shape], c[2])
                 /\ { rc \in Cells : r.game.board[rc] # board[rc] } = Footprint(shape, c[2])

\* the piece "2" was just placed inside the grid with a quarter turn and a
\* flip, and lies upright
C21_Witness ==
  /\ ret = Returned(TRUE, SUCCESS)
  /\ LET last == move_history[Len(move_history)]
     IN  /\ last.piece_id = "2"
         /\ last.rotation = 1
         /\ last.flip
         /\ last.position \in Cells
         /\ <<last.position[1] + 1, last.position[2]>> \in Cells
         /\ board[last.position] = players[last.player - 1].color
         /\ board[<<last.position[1] + 1, last.position[2]>>] = players[last.player - 1].color

\* C22: validation, execution and the can-move search work on copies: in every
\* state every piece in every inventory has its current matrix equal to its
\* original matrix and to the catalog shape of its identifier, with matching
\* dimensions.
C22_InventoryPiecesKeepCatalogShape ==
  \A seat \in Seats :
    \A k \in 1..Len(players[seat].pieces) :
      LET piece == players[seat].pieces[k]
      IN  /\ piece.shape = piece.original_shape
          /\ \E i \in 1..NumCatalog :
               /\ get_standard_piece_shapes[i].id = piece.piece_id
               /\ get_standard_piece_shapes[i].shape = piece.shape
          /\ get_dimensions(piece) = np_shape(piece.original_shape)

\* a move made with a quarter turn and a flip was accepted while its mover
\* keeps a piece, and a later call was rejected
C22_Witness ==
  /\ ret = Returned(FALSE, INVALID_MOVE)
  /\ \E k \in 1..Len(move_history) :
       /\ move_history[k].rotation = 1
       /\ move_history[k].flip
       /\ has_pieces_remaining(players[move_history[k].player - 1])

(***************************************************************************)
(* One piece on its own: a catalog piece of any colour, held as the only   *)
(* piece of the first seat, under BlokusPiece's orientation operations.    *)
(***************************************************************************)
ThePiece == players[0].pieces[1]

HoldPiece(piece) == [players EXCEPT ![0].pieces = <<piece>>]

\* arguments of rotate: from a full turn backwards to two full turns
RotationArgs == -4..8

PieceInit ==
  /\ board = BlokusGame.board
  /\ \E i \in 1..Len(get_standard_piece_shapes), color \in BoardColors :
       players = [BlokusGame.players EXCEPT ![0].pieces = <<CatalogPiece(i, color)>>]
  /\ current_player_idx = BlokusGame.current_player_idx
  /\ move_history = BlokusGame.move_history
  /\ game_over = BlokusGame.game_over
  /\ turns_played = BlokusGame.turns_played
  /\ ret = NoCall

Rotate ==
  \E rotations \in RotationArgs :
    /\ players' = HoldPiece(rotate(ThePiece, rotations))
    /\ UNCHANGED <<board, current_player_idx, move_history, game_over, turns_played, ret>>

Flip ==
  /\ players' = HoldPiece(flip(ThePiece))
  /\ UNCHANGED <<board, current_player_idx, move_history, game_over, turns_played, ret>>

ResetOrientation ==
  /\ players' = HoldPiece(reset_orientation(ThePiece))
  /\ UNCHANGED <<board, current_player_idx, move_history, game_over, turns_played, ret>>

GetAllOrientations ==
  /\ players' = HoldPiece(get_all_orientations(ThePiece).piece)
  /\ UNCHANGED <<board, current_player_idx, move_history, game_over, turns_played, ret>>

PieceNext == Rotate \/ Flip \/ ResetOrientation \/ GetAllOrientations

PieceSpec == PieceInit /\ [][PieceNext]_vars

\* the set of the entries of a list
Range(s) == { s[k] : k \in 1..Len(s) }

\* the 8 combinations of a flip or none with 0..3 clockwise quarter turns
EightOrientations(shape) ==
  { Oriented(shape, rotation, flipped) : rotation \in 0..3, flipped \in BOOLEAN }

\* C23: get_all_orientations returns exactly the distinct matrices among the 8
\* combinations of {no flip, flip} and {0, 1, 2, 3 quarter turns} of the current
\* shape: each of them appears, no matrix appears twice, there are at most 8
\* entries, and there is 1 entry for the single cell and for the 2-by-2
\* square, 4 for the 3-cell L and 8 for a piece without symmetry.
C23_AllOrientationsExact ==
  LET result == get_all_orientations(ThePiece).result
      eight == EightOrientations(ThePiece.shape)
  IN  /\ Range(result) = eight
      /\ \A j, k \in 1..Len(result) : j # k => result[j] # result[k]
      /\ Len(result) <= 8
      /\ ThePiece.piece_id \in {"1", "O4"} => Len(result) = 1
      /\ ThePiece.piece_id = "V3" => Len(result) = 4
      /\ ThePiece.piece_id \in {"L4", "F5"} => Len(result) = 8
      /\ Cardinality(eight) = 8 => Len(result) = 8

\* the piece F5, which has no symmetry, lies turned away from its catalog shape
C23_Witness ==
  /\ ThePiece.piece_id = "F5"
  /\ ThePiece.shape # ThePiece.original_shape
  /\ Len(get_all_orientations(ThePiece).result) = 8

\* C24: get_all_orientations leaves the piece as it found it: the current
\* matrix, the reported dimensions and the original matrix after the call
\* equal those before it, whatever the orientation of the piece.
C24_AllOrientationsRestores ==
  LET after == get_all_orientations(ThePiece).piece
  IN  /\ after.shape = ThePiece.shape
      /\ get_dimensions(after) = get_dimensions(ThePiece)
      /\ get_dimensions(after) = np_shape(ThePiece.shape)
      /\ after.original_shape = ThePiece.original_shape
      /\ after = ThePiece

\* a piece that is not square lies turned a quarter and mirrored
C24_Witness ==
  /\ ThePiece.height # ThePiece.width
  /\ ThePiece.shape = Mirror(ClockwiseTurn(ThePiece.original_shape))
  /\ ThePiece.shape # ThePiece.original_shape

\* C25: four rotate(1) calls return the matrix they started from; rotate(k) is
\* k rotate(1) calls for k in 0..3; a rotation by a multiple of 4 changes
\* nothing; one rotation moves cell (r, c) of an h-by-w matrix to (c, h-1-r)
\* and swaps the reported height and width.
C25_RotateIsClockwiseQuarterTurn ==
  LET piece == ThePiece
      once == rotate(piece, 1)
      h == piece.height
      w == piece.width
  IN  /\ rotate_times(piece, 4) = piece
      /\ \A k \in 0..3 : rotate(piece, k) = rotate_times(piece, k)
      /\ \A n \in {-4, 0, 4, 8} : rotate(piece, n) = piece
      /\ get_dimensions(once) = <<w, h>>
      /\ np_shape(once.shape) = <<w, h>>
      /\ \A r \in 0..(h - 1), c \in 0..(w - 1) :
           once.shape[c + 1][(h - 1 - r) + 1] = piece.shape[r + 1][c + 1]

\* the piece L4 lies one clockwise quarter turn from its catalog shape
C25_Witness ==
  /\ ThePiece.piece_id = "L4"
  /\ ThePiece.shape = ClockwiseTurn(ThePiece.original_shape)
  /\ get_dimensions(ThePiece) = <<2, 3>>

\* C26: flip moves cell (r, c) of an h-by-w matrix to (r, w-1-c), keeps the
\* dimensions, and flipping twice gives back the matrix, in every orientation
\* of every piece.
C26_FlipIsMirrorInvolution ==
  LET piece == ThePiece
      once == flip(piece)
      h == piece.height
      w == piece.width
  IN  /\ get_dimensions(once) = <<h, w>>
      /\ np_shape(once.shape) = <<h, w>>
      /\ \A r \in 0..(h - 1), c \in 0..(w - 1) :
           once.shape[r + 1][(w - 1 - c) + 1] = piece.shape[r + 1][c + 1]
      /\ flip(once) = piece

\* the piece F5 lies mirrored, which differs from its catalog shape and from
\* its top-to-bottom mirror image
C26_Witness ==
  /\ ThePiece.piece_id = "F5"
  /\ ThePiece.shape = Mirror(ThePiece.original_shape)
  /\ ThePiece.shape # ThePiece.original_shape

\* C27: after any sequence of rotate and flip calls reset_orientation gives the
\* piece the matrix and the dimensions it had at construction (the catalog
\* shape of its identifier); a second reset changes nothing.
C27_ResetRestoresConstruction ==
  LET again == reset_orientation(ThePiece)
  IN  /\ \E i \in 1..Len(get_standard_piece_shapes), color \in BoardColors :
           again = CatalogPiece(i, color)
      /\ again.shape = ThePiece.original_shape
      /\ get_dimensions(again) = np_shape(ThePiece.original_shape)
      /\ reset_orientation(again) = again

\* a piece that is not square lies with its height and width swapped
C27_Witness ==
  /\ get_dimensions(ThePiece) # np_shape(ThePiece.original_shape)
  /\ ThePiece.shape # ThePiece.original_shape
  /\ ThePiece.size = 5

(***************************************************************************)
(* The players on their own: BlokusPlayer's inventory and first_move       *)
(* operations, called directly on the players of a new game.               *)
(***************************************************************************)
\* index arguments: from below minus the full inventory length to above it
PlayerIndexes == (-(NumCatalog + 1))..(NumCatalog + 1)

\* what a lookup or removal returned: the piece's identifier, or None
Lookup(result) ==
  Returned(result # None, IF result = None THEN "None" ELSE get_piece_id(result[1]))

GetPiece ==
  \E seat \in Seats, index \in PlayerIndexes :
    /\ ret' = Lookup(get_piece(players[seat], index))
    /\ UNCHANGED <<board, players, current_player_idx, move_history, game_over,
                   turns_played>>

RemovePiece ==
  \E seat \in Seats, index \in PlayerIndexes :
    LET r == remove_piece(players[seat], index)
    IN  /\ players' = [players EXCEPT ![seat] = r.player]
        /\ ret' = Lookup(r.result)
        /\ UNCHANGED <<board, current_player_idx, move_history, game_over, turns_played>>

ToggleFirstMove ==
  \E seat \in Seats :
    LET r == toggle_first_move(players[seat])
    IN  /\ players' = [players EXCEPT ![seat] = r.player]
        /\ ret' = IF r.raised THEN Raised("ValueError") ELSE Returned(TRUE, "None")
        /\ UNCHANGED <<board, current_player_idx, move_history, game_over, turns_played>>

PlayerNext == GetPiece \/ RemovePiece \/ ToggleFirstMove

PlayerSpec == Init /\ [][PlayerNext]_vars

C30_ToggleFirstMoveOnce ==
  /\ [](\A seat \in Seats :
          LET toggled == toggle_first_move(players[seat])
          IN  IF players[seat].first_move
                THEN /\ ~toggled.raised
                     /\ toggled.player = [players[seat] EXCEPT !.first_move = FALSE]
                ELSE /\ toggled.raised
                     /\ toggled.player = players[seat])
  /\ [][\A seat \in Seats : ~players[seat].first_move => ~players'[seat].first_move]_vars

\* a toggle of a flag that was already false has just raised its error
C30_Witness ==
  /\ ret = Raised("ValueError")
  /\ \E seat \in Seats : ~players[seat].first_move

(***************************************************************************)
(* The bounds-checked cell accessors of the board.                         *)
(***************************************************************************)
\* coordinates from two before the grid to two past it
ProbeCoords == -2..(BoardSize + 1)

\* C29: is_on_board(r, c) is true exactly when 0 <= r < N and 0 <= c < N; for
\* coordinates outside that range get_cell returns the absent value, set_cell
\* returns false and changes no cell, and is_empty returns false; inside the
\* range get_cell returns the cell's tag and set_cell followed by get_cell
\* returns the value written, with every other cell unchanged.
C29_CellAccessorsBoundsChecked ==
  \A row \in ProbeCoords, col \in ProbeCoords :
    /\ is_on_board(row, col) <=> <<row, col>> \in Cells
    /\ IF <<row, col>> \notin Cells
         THEN /\ get_cell(board, row, col) = -1
              /\ ~is_empty(board, row, col)
              /\ \A value \in {EMPTY} \cup BoardColors :
                   set_cell(board, row, col, value) = [board |-> board, ok |-> FALSE]
         ELSE /\ get_cell(board, row, col) = board[<<row, col>>]
              /\ is_empty(board, row, col) <=> board[<<row, col>>] = EMPTY
              /\ \A value \in {EMPTY} \cup BoardColors :
                   LET written == set_cell(board, row, col, value)
                   IN  /\ written.ok
                       /\ get_cell(written.board, row, col) = value
                       /\ \A rc \in Cells \ {<<row, col>>} : written.board[rc] = board[rc]

\* the last row and the last column of the grid hold non-empty cells, so a
\* negative index read with numpy's indexing would find a tag
C29_Witness ==
  /\ \E col \in 0..(BoardSize - 1) : board[<<BoardSize - 1, col>>] # EMPTY
  /\ \E row \in 0..(BoardSize - 1) : board[<<row, BoardSize - 1>>] # EMPTY
  /\ Filled(board) = MaxFilled

(***************************************************************************)
(* The can-move search against the placement rule, on every grid.          *)
(***************************************************************************)
\* the inventory of a seat that still holds the catalog pieces whose numbers
\* are in held, among the first NumProbe, in catalog order
InventoryOf(held, color) ==
  LET full == [k \in 1..NumProbe |-> CatalogPiece(k, color)]
      kept(piece) == \E i \in held : get_standard_piece_shapes[i].id = piece.piece_id
  IN  SelectSeq(full, kept)

\* a game on grid b in which the seat holds the inventory with the flag
GameWith(b, seat, pieces, first_move) ==
  [BlokusGame EXCEPT !.board = b,
                     !.players[seat].pieces = pieces,
                     !.players[seat].first_move = first_move]

\* the piece as make_move can place it: rotation 0..3, then a flip or none
MoveOrientations(piece, color) ==
  { validated_piece(piece, color, rotation, flipped) :
      rotation \in 0..3, flipped \in BOOLEAN }

\* the catalog pieces, among the first NumProbe, that have an orientation and a
\* grid position at which is_valid_placement holds
LegalPieces(b, color, first_move) ==
  { k \in 1..NumProbe :
      \E piece \in MoveOrientations(CatalogPiece(k, color), color), position \in Cells :
        is_valid_placement(b, piece, position, color, first_move) }

\* the grid with its empty corner cells taken by a colour
CornersTaken(b, color) ==
  [rc \in Cells |-> IF rc \in get_corners /\ b[rc] = EMPTY THEN color ELSE b[rc]]

\* C31: on every grid and for every seat, whatever part of its inventory it
\* holds and whether its first_move flag is true or false, can_player_move is
\* true exactly when some piece it holds has an orientation and a grid
\* position at which is_valid_placement holds for its colour and flag; it is
\* false with an empty inventory, on a first move when the four corners are
\* occupied, and on a later move without anchor cells.
C31_CanMoveIffLegalPlacement ==
  \A seat \in Seats :
    LET color == BlokusGame.players[seat].color
        legal == [first_move \in BOOLEAN |-> LegalPieces(board, color, first_move)]
        can(b, held, first_move) ==
          _can_player_move(GameWith(b, seat, InventoryOf(held, color), first_move), seat)
    IN  /\ \A held \in SUBSET (1..NumProbe), first_move \in BOOLEAN :
             LET answer == can(board, held, first_move)
             IN  /\ answer <=> \E k \in held : k \in legal[first_move]
                 /\ held = {} => ~answer
                 /\ ~first_move /\ get_player_corners(board, color) = {} => ~answer
        /\ \A held \in SUBSET (1..NumProbe), other \in BoardColors :
             ~can(CornersTaken(board, other), held, TRUE)

(***************************************************************************)
(* The turn never rests on a seat that cannot move.                        *)
(***************************************************************************)
\* the arguments a caller can choose for a move inside the grid
OpenCalls == (0..(NumCatalog - 1)) \X Cells \X ((0..3) \X BOOLEAN)

\* C32: in every state reached by make_move calls from a new game, if
\* game_over is false then can_player_move holds for the current player and
\* some make_move call (a piece index, a position, a rotation, a flip)
\* succeeds.
C32_TurnRestsOnASeatThatCanMove ==
  ~game_over =>
    /\ _can_player_move(Game, current_player_idx)
    /\ \E c \in OpenCalls : Result(c).ret.success

\* a move succeeded, the game goes on, and a seat that still holds pieces and
\* cannot move was passed over
C32_Witness ==
  /\ ret = Returned(TRUE, SUCCESS)
  /\ ~game_over
  /\ \E seat \in Seats :
       /\ seat # current_player_idx
       /\ has_pieces_remaining(players[seat])
       /\ ~_can_player_move(Game, seat)

(***************************************************************************)
(* Termination.  In a play the current player keeps making legal moves: a  *)
(* make_move call that succeeds is taken whenever one stays possible.      *)
(***************************************************************************)
\* the step of a legal move by the current player: of the steps make_move
\* takes, exactly the successful ones add 1 to turns_played, and none is
\* possible once the game is over or the current player holds no piece
LegalMove ==
  /\ ~game_over
  /\ has_pieces_remaining(get_current_player(Game))
  /\ turns_played' = turns_played + 1

LiveSpec == Init /\ [][Next]_vars /\ WF_turns_played(LegalMove)

\* the number of pieces held by all players
TotalHeld == SumSeq([k \in 1..NumPlayers |-> get_remaining_piece_count(players[k - 1])])

\* C33: every successful make_move reduces the number of pieces held by all
\* players by exactly one and a failed call leaves it unchanged, so no more
\* moves succeed than there are pieces (catalog size x number of players),
\* and a play in which the current player keeps making legal moves reaches
\* game_over = true.
C33_EveryGameTerminates ==
  /\ [][TotalHeld' = IF ret'.success THEN TotalHeld - 1 ELSE TotalHeld]_vars
  /\ [](turns_played <= NumCatalog * NumPlayers /\ TotalHeld >= 0)
  /\ <>game_over

\* a game that has ended after several moves while pieces are still held
C33_Witness ==
  /\ game_over
  /\ Len(move_history) >= 2
  /\ TotalHeld > 0
  /\ TotalHeld = NumCatalog * NumPlayers - Len(move_history)

(***************************************************************************)
(* Blocked seats.                                                          *)
(***************************************************************************)
Blocked(g, seat) == ~_can_player_move(g, seat)

\* C34: a seat for which can_player_move is false stays so after every
\* make_move call, and it is not the acting player of a successful move: a
\* call succeeds only for a seat for which can_player_move was true.
C34_BlockedIsPermanent ==
  \A c \in Calls :
    LET r == Result(c)
    IN  \A seat \in Seats :
          Blocked(Game, seat) =>
            /\ Blocked(r.game, seat)
            /\ r.ret.success => current_player_idx # seat

\* a seat that still holds pieces is blocked and the other seat moves on
C34_Witness ==
  \E seat \in Seats :
    /\ Blocked(Game, seat)
    /\ has_pieces_remaining(players[seat])
    /\ \E c \in Calls : Result(c).ret.success /\ Blocked(Result(c).game, seat)

\* C35: the turn scan has the mover as its last candidate: when after a
\* successful move by seat m every other seat is blocked and m can still
\* move, game_over stays false and m stays the current player; the game is
\* over only when every seat, the mover included, is blocked.
C35_MoverIsLastCandidate ==
  /\ game_over => \A seat \in Seats : Blocked(Game, seat)
  /\ \A c \in Calls :
       LET r == Result(c)
           m == current_player_idx
       IN  r.ret.success =>
             /\ ((\A seat \in Seats \ {m} : Blocked(r.game, seat)) /\ ~Blocked(r.game, m))
                  => ~r.game.game_over /\ r.game.current_player_idx = m
             /\ r.game.game_over
                  => r.game.current_player_idx = m /\ \A seat \in Seats : Blocked(r.game, seat)

\* one seat has made two moves in a row, the first of which left it the
\* current player of a game that went on
C35_Witness ==
  /\ Len(move_history) >= 2
  /\ move_history[Len(move_history)].player = move_history[Len(move_history) - 1].player
  /\ current_player_idx = move_history[Len(move_history)].player - 1
  /\ ret = Returned(TRUE, SUCCESS)

(***************************************************************************)
(* What the moves of a game have written.                                  *)
(***************************************************************************)
\* the number of the catalog entry with the identifier
CatalogIndex(piece_id) ==
  CHOOSE i \in 1..Len(get_standard_piece_shapes) : get_standard_piece_shapes[i].id = piece_id

\* the grid cells the k-th move of the history has written
WrittenBy(k) ==
  LET move == move_history[k]
      color == players[move.player - 1].color
  IN  placed_cells(temp_piece_of(CatalogPiece(CatalogIndex(move.piece_id), color),
                                 color, move.rotation, move.flip),
                   move.position)

SameSeatMoves ==
  { jk \in (1..Len(move_history)) \X (1..Len(move_history)) :
      jk[1] < jk[2] /\ move_history[jk[1]].player = move_history[jk[2]].player }

\* C36: after any sequence of successful make_move calls from a new game, no
\* two cells of the same colour that were written by different moves are
\* orthogonally adjacent on the grid.
C36_SameColourMeetsOnlyAtCorners ==
  \A jk \in SameSeatMoves :
    \A a \in WrittenBy(jk[1]), b \in WrittenBy(jk[2]) :
      <<b[1] - a[1], b[2] - a[2]>> \notin Orthogonal

\* the number of grid cells with the colour tag
CellCount(b, color) == Cardinality({rc \in Cells : b[rc] = color})

\* the number of filled cells of the catalog entry with the identifier
CatalogSize(piece_id) == np_sum(get_standard_piece_shapes[CatalogIndex(piece_id)].shape)

\* the sizes of the pieces the seat has placed, in the order of its moves
PlacedSizes(seat) ==
  LET own(move) == move.player = players[seat].player_id
      moves == SelectSeq(move_history, own)
  IN  [k \in 1..Len(moves) |-> CatalogSize(moves[k].piece_id)]

\* C37: the 21 catalog pieces have 89 cells together; in every state reached
\* by make_move calls from a new game, for each seat the number of grid cells
\* with its colour equals the total size of the pieces it has placed, which is
\* the total size of a full inventory minus the total size of the pieces it
\* still holds, and the number of non-empty cells is the sum of these over
\* all seats.
C37_CellConservation ==
  /\ SumSeq([i \in 1..Len(get_standard_piece_shapes) |->
               np_sum(get_standard_piece_shapes[i].shape)]) = 89
  /\ \A seat \in Seats :
       /\ CellCount(board, players[seat].color) = SumSeq(PlacedSizes(seat))
       /\ SumSeq(PlacedSizes(seat))
            = InventorySize(initialize_pieces(players[seat].color))
                - InventorySize(players[seat].pieces)
  /\ Cardinality({rc \in Cells : board[rc] # EMPTY})
       = SumSeq([k \in 1..NumPlayers |-> SumSeq(PlacedSizes(k - 1))])

\* both seats have cells on the grid and one of them has placed pieces of
\* different sizes
C37_Witness ==
  /\ \A seat \in Seats : CellCount(board, players[seat].color) > 0
  /\ \E seat \in Seats :
       /\ Len(PlacedSizes(seat)) = 2
       /\ PlacedSizes(seat)[1] # PlacedSizes(seat)[2]
       /\ CellCount(board, players[seat].color) = 3

\* the number of history entries with the seat's id
MovesOf(history, seat) ==
  Cardinality({k \in 1..Len(history) : history[k].player = players[seat].player_id})

\* the pieces gone from the seat's inventory
Gone(g, seat) == NumCatalog - get_remaining_piece_count(g.players[seat])

\* C38: in every state reached by make_move calls from a new game,
\* len(move_history) = turns_played = the sum over the seats of (catalog size
\* - inventory size), and each seat has as many history entries as pieces gone
\* from its inventory; a failed call changes none of these counts.
C38_HistoryTurnsAndInventoriesAgree ==
  /\ Len(move_history) = turns_played
  /\ turns_played = SumSeq([k \in 1..NumPlayers |-> Gone(Game, k - 1)])
  /\ \A seat \in Seats : MovesOf(move_history, seat) = Gone(Game, seat)
  /\ \A c \in Calls :
       LET r == Result(c)
       IN  ~r.ret.success =>
             /\ Len(r.game.move_history) = Len(move_history)
             /\ r.game.turns_played = turns_played
             /\ \A seat \in Seats :
                  /\ Gone(r.game, seat) = Gone(Game, seat)
                  /\ MovesOf(r.game.move_history, seat) = MovesOf(move_history, seat)

\* a call failed after both seats had moved, one of them twice
C38_Witness ==
  /\ ret = Returned(FALSE, INVALID_MOVE)
  /\ turns_played = 3
  /\ \A seat \in Seats : MovesOf(move_history, seat) >= 1

\* C39: in every state reached by make_move calls from a new game, for each
\* seat these are equivalent: its first_move flag is true; its inventory
\* holds all the catalog pieces; move_history has no entry with its seat id;
\* no grid cell has its colour.
C39_FirstMoveEquivalences ==
  \A seat \in Seats :
    LET flag == players[seat].first_move
        full == players[seat].pieces = initialize_pieces(players[seat].color)
        unrecorded == \A k \in 1..Len(move_history) :
                        move_history[k].player # players[seat].player_id
        absent == \A rc \in Cells : board[rc] # players[seat].color
    IN  /\ flag <=> full
        /\ full <=> unrecorded
        /\ unrecorded <=> absent

\* one seat has moved and the other has not
C39_Witness ==
  \E moved, waiting \in Seats :
    /\ ~players[moved].first_move
    /\ \E rc \in Cells : board[rc] = players[moved].color
    /\ players[waiting].first_move
    /\ Len(players[waiting].pieces) = NumCatalog
    /\ \A rc \in Cells : board[rc] # players[waiting].color

(***************************************************************************)
(* The three enumerations of a piece's orientations.                       *)
(***************************************************************************)
\* the shapes _can_player_move tries for a piece
TriedShapes(piece) ==
  { can_move_piece(piece, piece.color, flipped, rotation).shape :
      flipped \in BOOLEAN, rotation \in 0..3 }

\* the shapes make_move places for a piece, over its rotation and flip arguments
RequestedShapes(piece) ==
  { temp_piece_of(piece, piece.color, rotation, flipped).shape :
      rotation \in 0..3, flipped \in BOOLEAN }

\* C40: for every piece shape, the set of shapes can_player_move tries (an
\* optional flip first, then 0..3 single rotations accumulated on one working
\* copy) equals the set of shapes make_move's arguments can request (rotation
\* 0..3 first, then an optional flip) and equals the set get_all_orientations
\* returns; the shape tried with (flip, rotation r) is the one requested with
\* rotation r unflipped, or with rotation (4 - r) mod 4 and the flip.
C40_OrientationEnumerationsAgree ==
  /\ TriedShapes(ThePiece) = RequestedShapes(ThePiece)
  /\ RequestedShapes(ThePiece) = Range(get_all_orientations(ThePiece).result)
  /\ \A rotation \in 0..3 :
       /\ can_move_piece(ThePiece, ThePiece.color, FALSE, rotation).shape
            = temp_piece_of(ThePiece, ThePiece.color, rotation, FALSE).shape
       /\ can_move_piece(ThePiece, ThePiece.color, TRUE, rotation).shape
            = temp_piece_of(ThePiece, ThePiece.color, (4 - rotation) % 4, TRUE).shape

\* a piece with 8 distinct orientations, turned away from its catalog shape,
\* for which flipping before a quarter turn and after it give different shapes
C40_Witness ==
  /\ Cardinality(TriedShapes(ThePiece)) = 8
  /\ ThePiece.shape # ThePiece.original_shape
  /\ can_move_piece(ThePiece, ThePiece.color, TRUE, 1).shape
       # temp_piece_of(ThePiece, ThePiece.color, 1, TRUE).shape

====
